---- MODULE Spec2Model ----
(***************************************************************************)
(* The Overlay component of the Alveus Twitch extension                    *)
(* (src/pages/overlay/components/overlay/Overlay.tsx): which panel is      *)
(* visible, the auto-dismiss timer started by a chat command, the          *)
(* "awaking" flag that guards the timer against the wake's own awoken      *)
(* signal, and the body click that closes the panels.                      *)
(*                                                                         *)
(* Time is explicit: now is the clock of the page's event loop, and the    *)
(* browser's timer table (timers) holds every timer setTimeout created,    *)
(* with the time it was set at and whether it is still pending.            *)
(*                                                                         *)
(* The AmbassadorCard component (src/components/ambassadorCard/            *)
(* AmbassadorCard.tsx) is modelled by the variable card and the            *)
(* specification CardSpec: the confetti timer confettiInit sets and the    *)
(* cleanup that clears it.                                                 *)
(***************************************************************************)
EXTENDS Integers, Sequences, FiniteSets, TLC

VARIABLES
    commandAmbassador,  \* useState<AmbassadorKey>(): "undefined" or a key
    visibleOption,      \* useState<OverlayKey>(): "undefined" or a key
    timeoutRef,         \* timeoutRef.current: 0 (undefined) or a timer handle
    awakingRef,         \* awakingRef.current
    timers,             \* the browser's timers: handle -> [setAt, delay, status]
    now,                \* the event loop's clock
    disableChatPopup,   \* settings.disableChatPopup.value
    mounted,            \* the component is mounted
    wakeCalls,          \* the calls of props.wake so far: [time, awaking]
    event,              \* the handler the event loop ran last, and its input
    card                \* an AmbassadorCard: its refs, its timers, its last handler

vars == <<commandAmbassador, visibleOption, timeoutRef, awakingRef, timers,
          now, disableChatPopup, mounted, wakeCalls, event, card>>

\* The variables of the Overlay component.
overlayVars == <<commandAmbassador, visibleOption, timeoutRef, awakingRef,
                 timers, now, disableChatPopup, mounted, wakeCalls, event>>

\* What the handlers of the component own (everything but the clock and event).
state == <<commandAmbassador, visibleOption, timeoutRef, awakingRef, timers,
           disableChatPopup, mounted, wakeCalls>>

----------------------------------------------------------------------------
\* Bounds of the model.
TickStep == 2000
MaxTime == 10000
MaxTimers == 2
MaxElements == 1
MaxCardTimers == 3

\* const commandDelay = 8000
commandDelay == 8000

\* overlayOptions[number]['key']
OverlayKey == {"welcome", "ambassadors", "settings"}

\* The keys of the ambassador catalogue (two of them), as chat commands name them.
AmbassadorKeys == {"nilla", "snork"}

isAmbassadorKey(command) == command \in AmbassadorKeys

\* The commands the chat feed delivers: ambassador keys, the literal welcome,
\* and strings that are neither.
Commands == AmbassadorKeys \cup {"welcome", "settings", "hello"}

\* The elements document.elementsFromPoint can return: the body or not, with
\* the two computed style properties bodyClick reads.  An element other than
\* the body has no background, an image or a colour; the body has none.
Elements ==
    {e \in [isBody : BOOLEAN,
            backgroundImage : {"none", "url(a.png)"},
            backgroundColor : {"rgba(0, 0, 0, 0)", "rgb(20, 20, 20)"}] :
        /\ e.backgroundImage = "none" \/ e.backgroundColor = "rgba(0, 0, 0, 0)"
        /\ e.isBody => e.backgroundImage = "none"
        /\ e.isBody => e.backgroundColor = "rgba(0, 0, 0, 0)"}

RECURSIVE SeqsUpTo(_, _)
SeqsUpTo(S, n) ==
    IF n = 0 THEN {<<>>}
    ELSE LET shorter == SeqsUpTo(S, n - 1)
         IN shorter \cup {Append(s, x) : s \in {q \in shorter : Len(q) = n - 1}, x \in S}

Body == [isBody |-> TRUE, backgroundImage |-> "none",
         backgroundColor |-> "rgba(0, 0, 0, 0)"]
Clear == [isBody |-> FALSE, backgroundImage |-> "none",
          backgroundColor |-> "rgba(0, 0, 0, 0)"]
Image == [isBody |-> FALSE, backgroundImage |-> "url(a.png)",
          backgroundColor |-> "rgba(0, 0, 0, 0)"]
Colour == [isBody |-> FALSE, backgroundImage |-> "none",
           backgroundColor |-> "rgb(20, 20, 20)"]

\* Lists of two and three elements: the body reached past elements without
\* background, an element with a background before or after the body, and
\* lists that end without the body.
LongerLists ==
    {<<Clear, Body>>, <<Clear, Clear>>, <<Image, Body>>, <<Clear, Colour>>,
     <<Body, Image>>, <<Clear, Clear, Body>>, <<Clear, Body, Colour>>,
     <<Clear, Image, Body>>}

\* The lists a click is tried with: every list of up to MaxElements elements,
\* and the longer ones above.
ElementLists == SeqsUpTo(Elements, MaxElements) \cup LongerLists

Min(a, b) == IF a <= b THEN a ELSE b

----------------------------------------------------------------------------
\* The browser's timers.

Pending(tbl) == {id \in DOMAIN tbl : tbl[id].status = "pending"}

Deadline(tbl, id) == tbl[id].setAt + tbl[id].delay

\* setTimeout(callback, delay) at time t: a new handle, one more than the last.
setTimeout(tbl, delay, t) ==
    Append(tbl, [setAt |-> t, delay |-> delay, status |-> "pending"])

\* A timer that is done: the browser keeps nothing of it but that its handle
\* was used, and here how it ended ("fired" or "cleared").
Done(status) == [setAt |-> 0, delay |-> 0, status |-> status]

\* Mutant: a timer that is done is marked cleared again.
clearTimeout_Always(tbl, id) ==
    IF id \in DOMAIN tbl THEN [tbl EXCEPT ![id] = Done("cleared")] ELSE tbl

\* clearTimeout(id): cancels the timer when it is still pending, else nothing.
clearTimeout(tbl, id) ==
    IF id \in DOMAIN tbl /\ tbl[id].status = "pending"
    THEN [tbl EXCEPT ![id] = Done("cleared")]
    ELSE tbl

\* Mutant: the pending timer is never cleared.
clearCurrent_Nothing(tbl, ref) == tbl

\* if (timeoutRef.current) clearTimeout(timeoutRef.current)
clearCurrent(tbl, ref) == IF ref # 0 THEN clearTimeout(tbl, ref) ELSE tbl

----------------------------------------------------------------------------
\* The event record: the last handler run and its input.

NoEvent ==
    [op |-> "none", command |-> "", elements |-> <<>>, option |-> "",
     timer |-> 0]

\* An AmbassadorCard after its first render, before its refs are attached:
\* internalRef.current and timeout.current are undefined.
NoCard ==
    [mounted |-> TRUE, node |-> FALSE, reducedMotion |-> FALSE,
     birthday |-> FALSE, timeout |-> 0, timers |-> <<>>, op |-> "none"]

----------------------------------------------------------------------------
Init ==
    /\ commandAmbassador = "undefined"
    /\ visibleOption = "undefined"
    /\ timeoutRef = 0
    /\ awakingRef = FALSE
    /\ timers = <<>>
    /\ now = 0
    /\ disableChatPopup \in BOOLEAN
    /\ mounted = TRUE
    /\ wakeCalls = <<>>
    /\ event = NoEvent
    /\ card = NoCard

----------------------------------------------------------------------------
\* The awoken callback (useEffect at lines 99-106).

\* awakingRef.current after the callback
awokenAwaking(awaking) == IF awaking THEN FALSE ELSE awaking

\* Mutant: the callback clears the timer without looking at the flag.
awokenTimers_NoFlag(awaking, tbl, ref) == clearCurrent(tbl, ref)

\* Mutant: the callback never clears the timer.
awokenTimers_NoClear(awaking, tbl, ref) == tbl

\* the timers after the callback
awokenTimers(awaking, tbl, ref) ==
    IF awaking THEN tbl ELSE clearCurrent(tbl, ref)

\* The interaction feed calls the callbacks registered with awoken.add.
onInteraction ==
    /\ mounted
    /\ awakingRef' = awokenAwaking(awakingRef)
    /\ timers' = awokenTimers(awakingRef, timers, timeoutRef)
    /\ event' = [NoEvent EXCEPT !.op = "onInteraction"]
    /\ UNCHANGED <<commandAmbassador, visibleOption, timeoutRef, now,
                   disableChatPopup, mounted, wakeCalls>>
    /\ UNCHANGED card

----------------------------------------------------------------------------
\* The chat command callback (useChatCommand at lines 71-89).

\* Mutant: the return of line 74 is missing.
commandAccepted_NoReturn(disabled, command) == ~disabled

\* Mutant: the setting of line 72 is not read.
commandAccepted_NoSetting(disabled, command) ==
    isAmbassadorKey(command) \/ command = "welcome"

\* The command passes line 72 and lines 73-74.
commandAccepted(disabled, command) ==
    /\ ~disabled
    /\ isAmbassadorKey(command) \/ command = "welcome"

\* Mutant: a command that is no ambassador key clears the subject.
commandSubject_Clears(current, command) ==
    IF isAmbassadorKey(command) THEN command ELSE "undefined"

\* if (isAmbassadorKey(command)) setCommandAmbassador(command)
commandSubject(current, command) ==
    IF isAmbassadorKey(command) THEN command ELSE current

\* Mutant: the wrong key for the ambassadors panel.
commandOption_Settings(command) ==
    IF command = "welcome" THEN "welcome" ELSE "settings"

\* Mutant: every accepted command shows the ambassadors panel.
commandOption_AlwaysAmbassadors(command) == "ambassadors"

\* setVisibleOption(command === 'welcome' ? 'welcome' : 'ambassadors')
commandOption(command) ==
    IF command = "welcome" THEN "welcome" ELSE "ambassadors"

\* Mutant: the new timer is set without clearing the old one.
commandTimers_NoClear(tbl, ref, t) == setTimeout(tbl, commandDelay, t)

\* Lines 80-83: the timers after the old one is cleared and the new one is set.
commandTimers(tbl, ref, t) ==
    setTimeout(clearCurrent(tbl, ref), commandDelay, t)

\* The handle setTimeout returns at line 81.
commandHandle(tbl) == Len(tbl) + 1

\* Mutant: the flag is not set before the wake.
commandAwaking_Unset(awaking) == awaking

\* Line 86: awakingRef.current = true
commandAwaking(awaking) == TRUE

\* Line 87: wake(commandDelay), called with the flag as line 86 left it;
\* delivers says whether the wake calls the awoken callbacks before it
\* returns.
wakeAwaking(awaking, delivers) ==
    IF delivers THEN awokenAwaking(awaking) ELSE awaking

wakeTimers(awaking, delivers, tbl, ref) ==
    IF delivers THEN awokenTimers(awaking, tbl, ref) ELSE tbl

\* What wakeCalls keeps of a call of wake: its argument, and the flag at the
\* time of the call.
wakeCall(time, awaking) == [time |-> time, awaking |-> awaking]

onCommand(command, delivers) ==
    /\ mounted
    /\ Len(timers) < MaxTimers
    /\ now + commandDelay <= MaxTime
    /\ event' = [NoEvent EXCEPT !.op = "onCommand", !.command = command]
    /\ UNCHANGED card
    /\ IF commandAccepted(disableChatPopup, command)
       THEN /\ commandAmbassador' = commandSubject(commandAmbassador, command)
            /\ visibleOption' = commandOption(command)
            /\ timeoutRef' = commandHandle(timers)
            /\ awakingRef' = wakeAwaking(commandAwaking(awakingRef), delivers)
            /\ timers' = wakeTimers(commandAwaking(awakingRef), delivers,
                                    commandTimers(timers, timeoutRef, now),
                                    commandHandle(timers))
            /\ wakeCalls' = Append(wakeCalls,
                                   wakeCall(commandDelay,
                                            commandAwaking(awakingRef)))
            /\ UNCHANGED <<now, disableChatPopup, mounted>>
       ELSE UNCHANGED <<commandAmbassador, visibleOption, timeoutRef,
                        awakingRef, timers, now, disableChatPopup, mounted,
                        wakeCalls>>

----------------------------------------------------------------------------
\* The dismiss timer's callback (lines 81-83) run by the browser when due.

\* Mutant: the timer's callback falls back to the welcome panel.
timeoutOption_Welcome(isMounted, current) ==
    IF isMounted THEN "welcome" ELSE current

\* Mutant: the timer's callback leaves the panel as it is.
timeoutOption_Keeps(isMounted, current) == current

\* setVisibleOption(undefined); a state setter of an unmounted component
\* changes nothing.
timeoutOption(isMounted, current) ==
    IF isMounted THEN "undefined" ELSE current

onTimeout(id) ==
    /\ id \in Pending(timers)
    /\ Deadline(timers, id) <= now
    /\ timers' = [timers EXCEPT ![id] = Done("fired")]
    /\ visibleOption' = timeoutOption(mounted, visibleOption)
    /\ event' = [NoEvent EXCEPT !.op = "onTimeout", !.timer = id]
    /\ UNCHANGED <<commandAmbassador, timeoutRef, awakingRef, now,
                   disableChatPopup, mounted, wakeCalls>>
    /\ UNCHANGED card

----------------------------------------------------------------------------
\* bodyClick (lines 109-125).

\* Mutant: only the background colour is looked at.
hasBackground_ColourOnly(element) ==
    element.backgroundColor # "rgba(0, 0, 0, 0)"

\* style.backgroundImage !== 'none' || style.backgroundColor !== 'rgba(0, 0, 0, 0)'
hasBackground(element) ==
    \/ element.backgroundImage # "none"
    \/ element.backgroundColor # "rgba(0, 0, 0, 0)"

\* Mutant: the click never closes the panels.
bodyClickCloses_Never(elements, i) == FALSE

\* The for loop from element i on: TRUE when it ends by break or by running
\* out of elements (the click closes the panels), FALSE when it returns.
RECURSIVE bodyClickCloses(_, _)
bodyClickCloses(elements, i) ==
    IF i > Len(elements) THEN TRUE
    ELSE IF elements[i].isBody THEN TRUE
    ELSE IF hasBackground(elements[i]) THEN FALSE
    ELSE bodyClickCloses(elements, i + 1)

bodyClick(elements) ==
    /\ mounted
    /\ visibleOption' =
          IF bodyClickCloses(elements, 1) THEN "undefined" ELSE visibleOption
    /\ event' = [NoEvent EXCEPT !.op = "bodyClick", !.elements = elements]
    /\ UNCHANGED <<commandAmbassador, timeoutRef, awakingRef, timers, now,
                   disableChatPopup, mounted, wakeCalls>>
    /\ UNCHANGED card

----------------------------------------------------------------------------
\* A click on one of the Buttons: onClick={setVisibleOption}.  The click is
\* an interaction as well, so the awoken callback runs with it.
buttonClick(option) ==
    /\ mounted
    /\ visibleOption' = option
    /\ awakingRef' = awokenAwaking(awakingRef)
    /\ timers' = awokenTimers(awakingRef, timers, timeoutRef)
    /\ event' = [NoEvent EXCEPT !.op = "buttonClick", !.option = option]
    /\ UNCHANGED <<commandAmbassador, timeoutRef, now, disableChatPopup,
                   mounted, wakeCalls>>
    /\ UNCHANGED card

----------------------------------------------------------------------------
\* The viewer changes the setting the command callback reads at line 72.
setDisableChatPopup(value) ==
    /\ mounted
    /\ value # disableChatPopup
    /\ disableChatPopup' = value
    /\ event' = [NoEvent EXCEPT !.op = "setDisableChatPopup"]
    /\ UNCHANGED <<commandAmbassador, visibleOption, timeoutRef, awakingRef,
                   timers, now, mounted, wakeCalls>>
    /\ UNCHANGED card

----------------------------------------------------------------------------
\* Unmounting runs the cleanup of the effect at lines 92-96.

\* Mutant: the effect has no cleanup.
unmountTimers_NoCleanup(tbl, ref) == tbl

\* if (timeoutRef.current) clearTimeout(timeoutRef.current)
unmountTimers(tbl, ref) == clearCurrent(tbl, ref)

unmount ==
    /\ mounted
    /\ mounted' = FALSE
    /\ timers' = unmountTimers(timers, timeoutRef)
    /\ event' = [NoEvent EXCEPT !.op = "unmount"]
    /\ UNCHANGED <<commandAmbassador, visibleOption, timeoutRef, awakingRef,
                   now, disableChatPopup, wakeCalls>>
    /\ UNCHANGED card

----------------------------------------------------------------------------
\* Time passes, but never past the deadline of a pending timer: a timer that
\* is due runs (or is cleared) before the clock moves on.

EarliestDeadline(tbl) ==
    IF Pending(tbl) = {} THEN MaxTime
    ELSE CHOOSE d \in {Deadline(tbl, id) : id \in Pending(tbl)} :
            \A id \in Pending(tbl) : d <= Deadline(tbl, id)

Tick ==
    /\ now < MaxTime
    /\ now < EarliestDeadline(timers)
    /\ now' = Min(Min(now + TickStep, EarliestDeadline(timers)), MaxTime)
    /\ UNCHANGED <<commandAmbassador, visibleOption, timeoutRef, awakingRef,
                   timers, disableChatPopup, mounted, wakeCalls, event>>
    /\ UNCHANGED card

----------------------------------------------------------------------------
Next ==
    \/ \E command \in Commands, delivers \in BOOLEAN : onCommand(command, delivers)
    \/ onInteraction
    \/ \E id \in DOMAIN timers : onTimeout(id)
    \/ \E elements \in ElementLists : bodyClick(elements)
    \/ \E option \in OverlayKey \cup {"undefined"} : buttonClick(option)
    \/ \E value \in BOOLEAN : setDisableChatPopup(value)
    \/ unmount
    \/ Tick

Spec == Init /\ [][Next]_vars

\* The event loop runs a due timer's callback, and time passes.
FairSpec ==
    /\ Spec
    /\ WF_vars(Tick)
    /\ WF_vars(\E id \in DOMAIN timers : onTimeout(id))

----------------------------------------------------------------------------
TypeOK ==
    /\ commandAmbassador \in AmbassadorKeys \cup {"undefined"}
    /\ visibleOption \in OverlayKey \cup {"undefined"}
    /\ timeoutRef \in 0..MaxTimers
    /\ awakingRef \in BOOLEAN
    /\ now \in 0..MaxTime
    /\ disableChatPopup \in BOOLEAN
    /\ mounted \in BOOLEAN
    /\ Len(timers) <= MaxTimers

----------------------------------------------------------------------------
\* The AmbassadorCard component.  Its timers are kept as the Overlay's are
\* (the clock does not matter to them here: a pending timer may run at any
\* time).

\* setTimeout(..., 500)
confettiDelay == 500

\* callbackRef (lines 51-60): internalRef.current = node ?? undefined, called
\* with the node when the ref is attached and with null when it is detached.
callbackRef(node) ==
    /\ card.mounted
    /\ card' = [card EXCEPT !.node = node, !.op = "callbackRef"]
    /\ UNCHANGED overlayVars

\* The ambassador (a prop) changes: it is its birthday or not, and so
\* <Confetti onInit={confettiInit} /> is rendered or not (line 119).
setBirthday(birthday) ==
    /\ card.mounted
    /\ birthday # card.birthday
    /\ card' = [card EXCEPT !.birthday = birthday, !.op = "setBirthday"]
    /\ UNCHANGED overlayVars

\* The viewer's prefers-reduced-motion setting changes.
setReducedMotion(reduce) ==
    /\ card.mounted
    /\ reduce # card.reducedMotion
    /\ card' = [card EXCEPT !.reducedMotion = reduce, !.op = "setReducedMotion"]
    /\ UNCHANGED overlayVars

\* Lines 65-70: confettiInit goes on past the early return.
confettiStarts(node, reducedMotion) == node /\ ~reducedMotion

\* Line 72: timeout.current = setTimeout(..., 500); the timers after it.
confettiTimers(tbl, ref, t) == setTimeout(tbl, confettiDelay, t)

\* confettiInit (lines 63-114), called by a Confetti that is rendered.
confettiInit ==
    /\ card.mounted
    /\ card.birthday
    /\ Len(card.timers) < MaxCardTimers
    /\ IF confettiStarts(card.node, card.reducedMotion)
       THEN card' = [card EXCEPT
                        !.timers = confettiTimers(card.timers, card.timeout, now),
                        !.timeout = Len(card.timers) + 1,
                        !.op = "confettiInit"]
       ELSE card' = [card EXCEPT !.op = "confettiInit"]
    /\ UNCHANGED overlayVars

\* The callback of the timer (lines 72-111): the confetti is fired.
confettiTimeout(id) ==
    /\ id \in Pending(card.timers)
    /\ card' = [card EXCEPT !.timers[id] = Done("fired"),
                            !.op = "confettiTimeout"]
    /\ UNCHANGED overlayVars

\* Unmounting: the ref is detached and the cleanup of line 115 runs,
\* clearTimeout(timeout.current).
cardUnmount ==
    /\ card.mounted
    /\ card' = [card EXCEPT !.mounted = FALSE,
                            !.node = FALSE,
                            !.timers = clearTimeout(card.timers, card.timeout),
                            !.op = "cardUnmount"]
    /\ UNCHANGED overlayVars

CardInit ==
    /\ commandAmbassador = "undefined"
    /\ visibleOption = "undefined"
    /\ timeoutRef = 0
    /\ awakingRef = FALSE
    /\ timers = <<>>
    /\ now = 0
    /\ disableChatPopup = FALSE
    /\ mounted = TRUE
    /\ wakeCalls = <<>>
    /\ event = NoEvent
    /\ \E birthday \in BOOLEAN, reduce \in BOOLEAN :
          card = [NoCard EXCEPT !.birthday = birthday, !.reducedMotion = reduce]

CardNext ==
    \/ \E node \in BOOLEAN : callbackRef(node)
    \/ \E birthday \in BOOLEAN : setBirthday(birthday)
    \/ \E reduce \in BOOLEAN : setReducedMotion(reduce)
    \/ confettiInit
    \/ \E id \in DOMAIN card.timers : confettiTimeout(id)
    \/ cardUnmount

CardSpec == CardInit /\ [][CardNext]_vars

----------------------------------------------------------------------------
\* Shorthands of the properties below.

\* The commands the callback acts on.
Recognised == AmbassadorKeys \cup {"welcome"}

Undefined == "undefined"

IsPending(id) == id \in DOMAIN timers /\ timers[id].status = "pending"

----------------------------------------------------------------------------
\* C1: every command that arrives while chat popups are not disabled sets,
\* whatever panel was visible: for an ambassador key, commandAmbassador to
\* that key and the visible panel to ambassadors; else, for the literal
\* welcome, the visible panel to welcome.
C1_CommandShowsPanel ==
    [][\A command \in Commands, delivers \in BOOLEAN :
          (onCommand(command, delivers) /\ ~disableChatPopup) =>
             /\ command \in AmbassadorKeys =>
                   /\ commandAmbassador' = command
                   /\ visibleOption' = "ambassadors"
             /\ (command \notin AmbassadorKeys /\ command = "welcome") =>
                   visibleOption' = "welcome"]_vars

\* An ambassador command has replaced the panel an earlier command showed.
C1_Witness ==
    /\ event.op = "onCommand"
    /\ event.command = "snork"
    /\ commandAmbassador = "snork"
    /\ visibleOption = "ambassadors"
    /\ Len(timers) = 2

\* C2: a command that is neither an ambassador key nor welcome changes
\* neither the visible panel, nor the timers (none cleared, none set), nor
\* commandAmbassador, nor the awaking flag.
C2_UnrecognisedIgnored ==
    [][\A command \in Commands \ Recognised, delivers \in BOOLEAN :
          onCommand(command, delivers) =>
             UNCHANGED <<visibleOption, timers, timeoutRef, commandAmbassador,
                         awakingRef>>]_vars

\* An unrecognised command arrived with popups enabled, a panel shown, its
\* timer pending and the awaking flag set: all are still so.
C2_Witness ==
    /\ event.op = "onCommand"
    /\ event.command = "hello"
    /\ ~disableChatPopup
    /\ visibleOption = "ambassadors"
    /\ IsPending(timeoutRef)
    /\ awakingRef

\* C3: with chat popups disabled, a command (ambassador keys and welcome
\* included) changes nothing: panel, commandAmbassador, timers, awaking flag,
\* and wake is not called.
C3_DisabledNoOp ==
    [][\A command \in Commands, delivers \in BOOLEAN :
          (onCommand(command, delivers) /\ disableChatPopup) =>
             UNCHANGED <<visibleOption, commandAmbassador, timers, timeoutRef,
                         awakingRef, wakeCalls>>]_vars

\* An ambassador command arrived with popups disabled while the welcome panel
\* of an earlier command was shown and its timer pending.
C3_Witness ==
    /\ event.op = "onCommand"
    /\ event.command = "nilla"
    /\ disableChatPopup
    /\ visibleOption = "welcome"
    /\ commandAmbassador = Undefined
    /\ IsPending(timeoutRef)
    /\ Len(wakeCalls) = 1

\* C4: at most one dismiss timer is pending in every reachable state, and a
\* command the callback acts on leaves exactly the timer it has just set
\* pending: the one pending before it is cancelled.
C4_OnePendingTimer ==
    /\ [](Cardinality(Pending(timers)) <= 1)
    /\ [][\A command \in Recognised, delivers \in BOOLEAN :
             (onCommand(command, delivers) /\ ~disableChatPopup) =>
                /\ Pending(timers') = {Len(timers) + 1}
                /\ \A id \in Pending(timers) : timers'[id].status = "cleared"]_vars

\* A second command has cancelled the pending timer of the first and set its own.
C4_Witness ==
    /\ event.op = "onCommand"
    /\ Len(timers) = 2
    /\ timers[1].status = "cleared"
    /\ timers[2].status = "pending"
    /\ now < commandDelay

\* C5: after a command the callback acts on, a panel is visible and a dismiss
\* timer is pending, due commandDelay after the command; a timer fires exactly
\* commandDelay after it was set, and then no panel is visible; a pending
\* timer is cancelled only by a later handler (a command, an interaction, a
\* button click, the unmount); and a pending timer does not stay pending for
\* ever: with no such handler it fires.
C5_DismissAfterDelay ==
    /\ [][\A command \in Recognised, delivers \in BOOLEAN :
             (onCommand(command, delivers) /\ ~disableChatPopup) =>
                /\ visibleOption' # Undefined
                /\ timeoutRef' \in Pending(timers')
                /\ timers'[timeoutRef'].setAt + timers'[timeoutRef'].delay
                      = now + 8000]_vars
    /\ [][\A id \in DOMAIN timers :
             onTimeout(id) =>
                /\ now = timers[id].setAt + 8000
                /\ visibleOption' = Undefined]_vars
    /\ [][\A id \in DOMAIN timers :
             (timers[id].status = "pending" /\ timers'[id].status = "cleared") =>
                \/ \E command \in Recognised, delivers \in BOOLEAN :
                      onCommand(command, delivers)
                \/ onInteraction
                \/ \E option \in OverlayKey \cup {Undefined} : buttonClick(option)
                \/ unmount]_vars
    /\ \A id \in 1..MaxTimers :
          IsPending(id) ~>
             (id \in DOMAIN timers /\ timers[id].status \in {"fired", "cleared"})

\* The timer of a welcome command fired commandDelay later, with no handler
\* run in between, and the panel is gone.
C5_Witness ==
    /\ event.op = "onTimeout"
    /\ event.timer = 1
    /\ Len(timers) = 1
    /\ timers[1].status = "fired"
    /\ now = commandDelay
    /\ visibleOption = Undefined
    /\ ~awakingRef

\* C6: a command the callback acts on while an earlier command's timer is
\* pending cancels that timer; the only timer that ever fires is the one of
\* the latest such command, commandDelay after that command.
C6_LatestTimerWins ==
    /\ [][\A command \in Recognised, delivers \in BOOLEAN :
             (onCommand(command, delivers) /\ ~disableChatPopup
                /\ IsPending(timeoutRef)) =>
                /\ ~(timeoutRef \in Pending(timers'))
                /\ timers'[Len(timers')].setAt = now
                /\ timers'[Len(timers')].status = "pending"]_vars
    /\ [][\A id \in DOMAIN timers :
             onTimeout(id) =>
                /\ id = Len(timers)
                /\ now = timers[Len(timers)].setAt + 8000]_vars

\* The second command came while the first one's timer was pending; the panel
\* was dismissed by the second timer, later than commandDelay after the first.
C6_Witness ==
    /\ event.op = "onTimeout"
    /\ event.timer = 2
    /\ timers[1].status = "cleared"
    /\ timers[2].status = "fired"
    /\ visibleOption = Undefined
    /\ now > commandDelay

\* C7: the awaking flag is a one-shot.  A command the callback acts on sets
\* it; the first run of the awoken callback after that (the wake's own, when
\* the wake delivers one, else the next interaction) clears the flag and
\* leaves the timers alone, and a run of the callback with the flag clear
\* cancels the pending timer.
C7_AwakingOneShot ==
    /\ [][\A command \in Recognised, delivers \in BOOLEAN :
             (onCommand(command, delivers) /\ ~disableChatPopup) =>
                /\ awakingRef' = ~delivers
                /\ timeoutRef' \in Pending(timers')]_vars
    /\ [][(onInteraction /\ awakingRef) =>
             (~awakingRef' /\ timers' = timers)]_vars
    /\ [][(onInteraction /\ ~awakingRef) =>
             (~awakingRef' /\ Pending(timers') = {})]_vars

\* An interaction has found the flag set: it is clear now, and the timer of
\* the command is still pending.
C7_Witness ==
    /\ event.op = "onInteraction"
    /\ ~awakingRef
    /\ visibleOption # Undefined
    /\ IsPending(timeoutRef)

\* C8: an interaction that comes from the interaction feed after a command's
\* wake (so not the signal of that wake itself) cancels the pending dismiss
\* timer, whether or not the wake delivered a signal of its own.
C8_InteractionCancels ==
    [][onInteraction => Pending(timers') = {}]_vars

\* C9: an interaction never changes the visible panel; an interaction that
\* finds the flag clear leaves no timer pending, and while no timer is
\* pending the visible panel changes only by a command the callback acts on,
\* a body click or a button click, and only such a command sets a timer.
C9_InteractionKeepsPanel ==
    /\ [][onInteraction => visibleOption' = visibleOption]_vars
    /\ [][(onInteraction /\ ~awakingRef) => Pending(timers') = {}]_vars
    /\ [][(Pending(timers) = {} /\ visibleOption' # visibleOption) =>
             \/ \E command \in Recognised, delivers \in BOOLEAN :
                   onCommand(command, delivers) /\ ~disableChatPopup
             \/ \E elements \in ElementLists : bodyClick(elements)
             \/ \E option \in OverlayKey \cup {Undefined} : buttonClick(option)]_vars
    /\ [][(Pending(timers) = {} /\ Pending(timers') # {}) =>
             \E command \in Recognised, delivers \in BOOLEAN :
                onCommand(command, delivers) /\ ~disableChatPopup]_vars

\* An interaction cancelled the timer of a command; the panel is still open
\* when the time the timer was due at has passed.
C9_Witness ==
    /\ event.op = "onInteraction"
    /\ Len(timers) = 1
    /\ timers[1].status = "cleared"
    /\ visibleOption = "ambassadors"
    /\ now = MaxTime

\* C10: a body click over a list of elements, topmost first, changes nothing
\* when an element before the body in the list has a background image or a
\* background colour that is not transparent; else (the body reached, or the
\* list at its end, past elements without background only) it sets the
\* visible panel to none and changes nothing else.  Elements after the body
\* do not count.  (A step is a body click over the list event' records.)
OpaqueBeforeRoot(elements) ==
    \E i \in 1..Len(elements) :
       /\ \/ elements[i].backgroundImage # "none"
          \/ elements[i].backgroundColor # "rgba(0, 0, 0, 0)"
       /\ \A j \in 1..i : ~elements[j].isBody

C10_OutsideClick ==
    [][bodyClick(event'.elements) =>
          IF OpaqueBeforeRoot(event'.elements)
          THEN UNCHANGED state
          ELSE /\ visibleOption' = Undefined
               /\ UNCHANGED <<commandAmbassador, timeoutRef, awakingRef,
                              timers, disableChatPopup, mounted,
                              wakeCalls>>]_vars

\* A click over the body with an element with a background image listed
\* after it has closed the panel of a command (whose timer is still pending).
C10_Witness ==
    /\ event.op = "bodyClick"
    /\ Len(event.elements) = 2
    /\ event.elements[1].isBody
    /\ event.elements[2].backgroundImage # "none"
    /\ visibleOption = Undefined
    /\ IsPending(timeoutRef)
    /\ awakingRef

\* C11: unmounting the component cancels the pending dismiss timer: no timer
\* is pending after the unmount, no timer's callback runs once the component
\* is unmounted, and the visible panel never changes after that.
C11_UnmountCancelsTimer ==
    /\ [][unmount => Pending(timers') = {}]_vars
    /\ [][\A id \in DOMAIN timers : onTimeout(id) => mounted]_vars
    /\ [][~mounted => visibleOption' = visibleOption]_vars

\* The component was unmounted with the timer of a command pending (the flag
\* still set, so no interaction had cleared it); the time it was due at has
\* passed and the panel is as it was.
C11_Witness ==
    /\ ~mounted
    /\ event.op = "unmount"
    /\ Len(timers) = 1
    /\ timers[1].status = "cleared"
    /\ awakingRef
    /\ visibleOption = "welcome"
    /\ now = MaxTime

\* C12 as claimed: the visible panel moves from one of welcome, ambassadors,
\* settings to another one of them only by a button click.
C12_OnlyButtonsSwitch ==
    [][(/\ visibleOption \in OverlayKey
        /\ visibleOption' \in OverlayKey
        /\ visibleOption' # visibleOption) =>
          \E option \in OverlayKey : buttonClick(option)]_vars

\* C12 as amended: the visible panel moves from one of welcome, ambassadors,
\* settings to another one of them only by a button click or by a command
\* the callback acts on, which shows welcome or ambassadors whatever panel
\* was visible; an interaction does not change the panel, and a timer firing
\* or a body click changes it to none only.
C12_ButtonsAndCommandsSwitch ==
    /\ [][(/\ visibleOption \in OverlayKey
           /\ visibleOption' \in OverlayKey
           /\ visibleOption' # visibleOption) =>
             \/ \E option \in OverlayKey : buttonClick(option)
             \/ \E command \in Recognised, delivers \in BOOLEAN :
                   /\ onCommand(command, delivers)
                   /\ ~disableChatPopup
                   /\ visibleOption' \in {"welcome", "ambassadors"}]_vars
    /\ [][onInteraction => visibleOption' = visibleOption]_vars
    /\ [][\A id \in DOMAIN timers :
             onTimeout(id) => visibleOption' \in {visibleOption, Undefined}]_vars
    /\ [][bodyClick(event'.elements) =>
             visibleOption' \in {visibleOption, Undefined}]_vars

\* A second command, for an ambassador, has arrived before the timer of the
\* first had fired, and shows the ambassadors panel.
C12_Witness ==
    /\ event.op = "onCommand"
    /\ event.command = "nilla"
    /\ visibleOption = "ambassadors"
    /\ commandAmbassador = "nilla"
    /\ Len(timers) = 2
    /\ timers[1].status = "cleared"

\* C13: a button click that sets the visible panel also cancels the dismiss
\* timer: no timer is pending after it.
C13_ButtonCancelsTimer ==
    [][\A option \in OverlayKey \cup {Undefined} :
          buttonClick(option) => Pending(timers') = {}]_vars

\* C14: a command the callback acts on calls wake exactly once, with the
\* delay of the dismiss timer (8000) and with the awaking flag set at the
\* time of the call; a command that is ignored, or arrives with chat popups
\* disabled, does not call wake, and no other handler does.
C14_WakeOncePerCommand ==
    /\ [][\A command \in Recognised, delivers \in BOOLEAN :
             (onCommand(command, delivers) /\ ~disableChatPopup) =>
                /\ wakeCalls' = Append(wakeCalls, [time |-> 8000, awaking |-> TRUE])
                /\ timers'[timeoutRef'].delay = 8000]_vars
    /\ [][\A command \in Commands, delivers \in BOOLEAN :
             (onCommand(command, delivers)
                /\ (disableChatPopup \/ command \notin Recognised)) =>
                wakeCalls' = wakeCalls]_vars
    /\ [][wakeCalls' # wakeCalls =>
             \E command \in Recognised, delivers \in BOOLEAN :
                onCommand(command, delivers) /\ ~disableChatPopup]_vars

\* Two commands have called wake once each, the second with the flag clear
\* before it (the first wake had delivered its signal).
C14_Witness ==
    /\ event.op = "onCommand"
    /\ event.command = "welcome"
    /\ Len(wakeCalls) = 2
    /\ \A i \in 1..2 : wakeCalls[i] = [time |-> commandDelay, awaking |-> TRUE]
    /\ Len(timers) = 2
    /\ IsPending(timeoutRef)
    /\ ~awakingRef

\* C15: cancelling is idempotent.  A handler that clears the timer of
\* timeoutRef when that timer has fired or was cleared already changes no
\* timer (the awoken callback then changes nothing at all, the panel
\* included); a timer that is done never changes again; and a timer is only
\* ever cleared through the handle timeoutRef holds, so never a newer one.
C15_CancelIdempotent ==
    /\ [][(onInteraction /\ ~awakingRef /\ ~IsPending(timeoutRef)) =>
             UNCHANGED state]_vars
    /\ [][(unmount /\ ~IsPending(timeoutRef)) => timers' = timers]_vars
    /\ [][\A command \in Recognised, delivers \in BOOLEAN :
             (onCommand(command, delivers) /\ ~disableChatPopup
                /\ ~IsPending(timeoutRef)) =>
                \A id \in DOMAIN timers : timers'[id] = timers[id]]_vars
    /\ [][\A id \in DOMAIN timers :
             timers[id].status # "pending" => timers'[id] = timers[id]]_vars
    /\ [][\A id \in DOMAIN timers :
             (timers[id].status = "pending" /\ timers'[id].status = "cleared")
                => id = timeoutRef]_vars

\* The unmount has cleared the handle of a timer that had fired: the timer is
\* as it was, and so is the panel a button had chosen after it fired.
C15_Witness ==
    /\ event.op = "unmount"
    /\ ~mounted
    /\ Len(timers) = 1
    /\ timeoutRef = 1
    /\ timers[1].status = "fired"
    /\ visibleOption = "settings"

\* C16: a body click that closes the panels (no element with a background
\* before the body) sets the visible panel to none whether or not a timer is
\* pending, and leaves the timers (a pending one stays pending, due at the
\* same time), the handle, the awaking flag and commandAmbassador as they
\* were.
C16_OutsideClickLeavesTimer ==
    [][(bodyClick(event'.elements) /\ ~OpaqueBeforeRoot(event'.elements)) =>
          /\ visibleOption' = Undefined
          /\ \A id \in DOMAIN timers :
                IsPending(id) =>
                   /\ timers'[id].status = "pending"
                   /\ timers'[id].setAt + timers'[id].delay
                         = timers[id].setAt + timers[id].delay
          /\ Pending(timers') = Pending(timers)
          /\ UNCHANGED <<timeoutRef, awakingRef, commandAmbassador>>]_vars

\* A click past an element without background on the body has closed the
\* panel of an ambassador command; the timer is pending and the flag set.
C16_Witness ==
    /\ event.op = "bodyClick"
    /\ event.elements = <<Clear, Body>>
    /\ visibleOption = Undefined
    /\ commandAmbassador = "nilla"
    /\ IsPending(timeoutRef)
    /\ awakingRef

\* C17: the settings panel becomes visible only by a button click: never by
\* a command, an interaction, a body click or a timer firing.
C17_SettingsOnlyByButton ==
    [][(visibleOption' = "settings" /\ visibleOption # "settings") =>
          buttonClick("settings")]_vars

\* The settings button was clicked and the settings panel is visible.
C17_Witness ==
    /\ event.op = "buttonClick"
    /\ event.option = "settings"
    /\ visibleOption = "settings"
    /\ commandAmbassador = "snork"

\* C18: while the component is mounted, a dismiss timer is pending whenever
\* the awaking flag is set.
C18_FlagImpliesPending ==
    (mounted /\ awakingRef) => Pending(timers) # {}

\* C19: commandAmbassador changes only by a command the callback acts on
\* that is an ambassador key, and then to that key; every such command sets
\* it; so it is never cleared once set and is the key of the latest such
\* command.
C19_SubjectOnlyByAmbassadorCommand ==
    /\ [][commandAmbassador' # commandAmbassador =>
             \E command \in AmbassadorKeys, delivers \in BOOLEAN :
                /\ onCommand(command, delivers)
                /\ ~disableChatPopup
                /\ commandAmbassador' = command]_vars
    /\ [][\A command \in AmbassadorKeys, delivers \in BOOLEAN :
             (onCommand(command, delivers) /\ ~disableChatPopup) =>
                commandAmbassador' = command]_vars
    /\ [][commandAmbassador # Undefined => commandAmbassador' # Undefined]_vars

\* A welcome command after an ambassador command: the welcome panel is
\* visible and commandAmbassador is still the ambassador.
C19_Witness ==
    /\ event.op = "onCommand"
    /\ event.command = "welcome"
    /\ visibleOption = "welcome"
    /\ commandAmbassador = "nilla"
    /\ Len(timers) = 2

\* C20: in AmbassadorCard a confetti timer is set only by confettiInit with
\* the card's node attached and reduced motion not requested; at most one
\* such timer is pending at a time; and once the card is unmounted no
\* confetti timer is pending or fires, however often confettiInit had run.
C20_OneConfettiTimer ==
    /\ [][Pending(card.timers') # Pending(card.timers) \cap Pending(card.timers')
             => (confettiInit /\ card.node /\ ~card.reducedMotion)]_vars
    /\ [](Cardinality(Pending(card.timers)) <= 1)
    /\ [](~card.mounted => Pending(card.timers) = {})
    /\ [][\A id \in DOMAIN card.timers : confettiTimeout(id) => card.mounted]_vars

====
